---- MODULE Spec2Model ----
(***************************************************************************)
(* HedgeGridStrategy (src/src/strategies/hedge_grid_strategy.py) together  *)
(* with the web commands of src/src/web/app.py that act on it.             *)
(*                                                                         *)
(* The strategy runs on one asyncio event loop.  A step of this model is   *)
(* the code one task runs between two suspension points (an await of an    *)
(* exchange call, of a websocket broadcast, or of asyncio.sleep): such a   *)
(* segment is atomic, and the tasks interleave only at those points.       *)
(*                                                                         *)
(* Units.  Prices are whole USDT.  Ratios and ATR multipliers are in       *)
(* thousandths, so thresholds are prices times 1000.  Amounts are in       *)
(* quarters of a coin and money in 1/40000 USDT, which keeps every Decimal *)
(* product of the code an integer; the price inputs divide the notional,   *)
(* so the Decimal division of _calculate_position_amount is exact too.     *)
(***************************************************************************)
EXTENDS Integers, Sequences, FiniteSets, TLC

----------------------------------------------------------------------------
\* Bounds of the model.

\* opening orders the exchange accepts in one run (they number the positions)
MaxOrders == 3
\* external commands (web requests, reset_daily_stats, stop, cancellation)
MaxCommands == 1
\* Cycles that raise in steps that follow one another are counted up to
\* MaxFailures.
MaxFailures == 2

----------------------------------------------------------------------------
\* Strategy configuration, HedgeGridStrategy.__init__.

position_ratio == 100            \* 0.1, in thousandths
leverage == 5
up_threshold == 20               \* 0.02, in thousandths
up_atr_multiplier == 900         \* 0.9
down_threshold == 20
down_atr_multiplier == 900
stop_loss_ratio == 50            \* 0.05
stop_loss_atr_multiplier == 1500 \* 1.5
max_daily_loss == 100            \* USDT
max_daily_trades == 2
\* The ATR period: fetch_ohlcv is asked for atr_period + 1 candles.
atr_period == 2
max_positions == 1
fee_rate == 4                    \* Decimal('0.0004'), in 1/10000
check_interval == 5              \* run_loop(check_interval = 5), seconds

\* One USDT in money units, thousandths, and a coin in amount units.
Money(usdt) == usdt * 40000
Milli(x) == x * 1000
Coins(n) == n * 4

\* Inputs of the environment.
Prices == {100, 125}        \* ticker['last']
Balances == {1000}               \* free USDT reported by fetch_balance
AtrValues == {0, 2}              \* what _update_atr stores; 0 = no indicator
ThresholdTypes == {"percent", "atr"}
Sides == {"long", "short"}
TaskIds == {"loop", "web", "stop"}

VARIABLES
    \* configuration read at construction
    up_threshold_type, down_threshold_type, stop_loss_type,
    \* the ledger
    long_positions, short_positions,
    \* risk state
    daily_loss, daily_trades, is_paused,
    \* run state
    is_running, current_atr, account_balance,
    \* statistics
    total_profit, total_loss, trade_count,
    long_profit_count, long_loss_count, short_profit_count, short_loss_count,
    \* the tasks: where each one is suspended and its local variables
    task,
    \* the exchange: number of opening orders accepted, close orders per position
    orders_accepted, close_orders,
    \* observations
    last_check, last_order, last_open, last_command, evals, close_failed,
    flat_by_risk, risk_fresh, nonpoll_close, commands,
    \* the last application of a method to given arguments, with its result
    computed,
    \* run_loop: how the cycle finished in the step just taken ended, the
    \* sleep that follows it, and the number of cycles that ended in the
    \* except branch in as many steps in a row, this one included
    last_sleep,
    \* main(): where it is, the configuration its ConfigManager holds, the
    \* calls of validate() made, and whether the exchange and the strategy
    \* have been created
    main

config == <<up_threshold_type, down_threshold_type, stop_loss_type>>
ledger == <<long_positions, short_positions>>
risk == <<daily_loss, daily_trades, is_paused>>
stats == <<total_profit, total_loss, trade_count, long_profit_count,
           long_loss_count, short_profit_count, short_loss_count>>
history == <<last_check, last_order, last_open, last_command, evals,
             close_failed, flat_by_risk, risk_fresh, nonpoll_close, computed,
             last_sleep>>
\* everything but the tasks and the count of commands
object == <<config, ledger, risk, is_running, current_atr, account_balance,
            stats, orders_accepted, close_orders, history>>
vars == <<object, task, commands, main>>

----------------------------------------------------------------------------
\* The strategy object as one record, so that the methods are functions
\* from object state to object state.  The observations last_check,
\* last_order, last_open, last_command and evals describe the step just
\* taken: every step starts from none of them.

NoCheck ==
    [ called |-> FALSE, is_paused |-> FALSE, daily_loss |-> 0, daily_trades |-> 0,
      ok |-> FALSE, paused_after |-> FALSE, unchanged |-> TRUE, full |-> "none" ]

NoOrder ==
    [ kind |-> "none", by |-> "none", side |-> "none", is_paused |-> FALSE,
      checked |-> FALSE, at_limit |-> FALSE ]

NoOpen ==
    [ by |-> "none", side |-> "none", order_id |-> 0, entry_price |-> 0,
      entry_atr |-> 0 ]

NoSleep == [after |-> "none", delay |-> 0, failures |-> 0]

Self ==
    [ up_threshold_type |-> up_threshold_type,
      down_threshold_type |-> down_threshold_type,
      stop_loss_type |-> stop_loss_type,
      up_threshold |-> up_threshold,
      up_atr_multiplier |-> up_atr_multiplier,
      down_threshold |-> down_threshold,
      down_atr_multiplier |-> down_atr_multiplier,
      stop_loss_ratio |-> stop_loss_ratio,
      stop_loss_atr_multiplier |-> stop_loss_atr_multiplier,
      long_positions |-> long_positions,
      short_positions |-> short_positions,
      daily_loss |-> daily_loss,
      daily_trades |-> daily_trades,
      is_paused |-> is_paused,
      is_running |-> is_running,
      current_atr |-> current_atr,
      account_balance |-> account_balance,
      total_profit |-> total_profit,
      total_loss |-> total_loss,
      trade_count |-> trade_count,
      long_profit_count |-> long_profit_count,
      long_loss_count |-> long_loss_count,
      short_profit_count |-> short_profit_count,
      short_loss_count |-> short_loss_count,
      orders_accepted |-> orders_accepted,
      close_orders |-> close_orders,
      last_check |-> NoCheck,
      last_order |-> NoOrder,
      last_open |-> NoOpen,
      last_command |-> "none",
      evals |-> {},
      close_failed |-> close_failed,
      flat_by_risk |-> flat_by_risk,
      risk_fresh |-> risk_fresh,
      nonpoll_close |-> nonpoll_close,
      computed |-> [fn |-> "none"],
      last_sleep |-> NoSleep ]

\* The strategy object becomes s.
BecomesObject(s) ==
    /\ up_threshold_type' = s.up_threshold_type
    /\ down_threshold_type' = s.down_threshold_type
    /\ stop_loss_type' = s.stop_loss_type
    /\ long_positions' = s.long_positions
    /\ short_positions' = s.short_positions
    /\ daily_loss' = s.daily_loss
    /\ daily_trades' = s.daily_trades
    /\ is_paused' = s.is_paused
    /\ is_running' = s.is_running
    /\ current_atr' = s.current_atr
    /\ account_balance' = s.account_balance
    /\ total_profit' = s.total_profit
    /\ total_loss' = s.total_loss
    /\ trade_count' = s.trade_count
    /\ long_profit_count' = s.long_profit_count
    /\ long_loss_count' = s.long_loss_count
    /\ short_profit_count' = s.short_profit_count
    /\ short_loss_count' = s.short_loss_count
    /\ orders_accepted' = s.orders_accepted
    /\ close_orders' = s.close_orders
    /\ last_check' = s.last_check
    /\ last_order' = s.last_order
    /\ last_open' = s.last_open
    /\ last_command' = s.last_command
    /\ evals' = s.evals
    /\ close_failed' = s.close_failed
    /\ flat_by_risk' = s.flat_by_risk
    /\ risk_fresh' = s.risk_fresh
    /\ nonpoll_close' = s.nonpoll_close
    /\ computed' = s.computed
    /\ last_sleep' = s.last_sleep

\* A step of the strategy or of a command on it: main() is where it was.
Becomes(s) == BecomesObject(s) /\ main' = main

\* The fields of the object that the program itself reads and writes.
Program(s) ==
    <<s.long_positions, s.short_positions, s.daily_loss, s.daily_trades,
      s.is_paused, s.is_running, s.current_atr, s.account_balance,
      s.total_profit, s.total_loss, s.trade_count, s.long_profit_count,
      s.long_loss_count, s.short_profit_count, s.short_loss_count>>

PositionsOf(s, side) ==
    IF side = "long" THEN s.long_positions ELSE s.short_positions

WithPositions(s, side, ps) ==
    IF side = "long" THEN [s EXCEPT !.long_positions = ps]
                     ELSE [s EXCEPT !.short_positions = ps]

OrderIds(ps) == [i \in 1..Len(ps) |-> ps[i].order_id]

\* position['is_open'] of the dict whose order id is id: a dict that has left
\* the list was marked closed before it left.
IsOpen(ps, id) == \E i \in 1..Len(ps) : ps[i].order_id = id /\ ps[i].is_open

Position(ps, id) == ps[CHOOSE i \in 1..Len(ps) : ps[i].order_id = id]

Remove(ps, id) == SelectSeq(ps, LAMBDA p : p.order_id # id)

MarkClosed(ps, id) ==
    [i \in 1..Len(ps) |->
        IF ps[i].order_id = id THEN [ps[i] EXCEPT !.is_open = FALSE] ELSE ps[i]]

Abs(x) == IF x < 0 THEN -x ELSE x

----------------------------------------------------------------------------
\* Thresholds of a position, in thousandths of a price.

\* Variant: the long stop loss takes its mode from up_threshold_type.
calculate_long_stop_loss_up_mode(s, position) ==
    IF s.up_threshold_type = "atr"
    THEN Milli(position.entry_price) - position.entry_atr * s.stop_loss_atr_multiplier
    ELSE position.entry_price * (1000 - s.stop_loss_ratio)

calculate_long_stop_loss(s, position) ==
    IF s.stop_loss_type = "atr"
    THEN Milli(position.entry_price) - position.entry_atr * s.stop_loss_atr_multiplier
    ELSE position.entry_price * (1000 - s.stop_loss_ratio)

\* Variant: the ATR of the current cycle is read, not the position's snapshot.
calculate_long_take_profit_current_atr(s, position) ==
    IF s.up_threshold_type = "atr"
    THEN Milli(position.entry_price) + s.current_atr * s.up_atr_multiplier
    ELSE position.entry_price * (1000 + s.up_threshold)

calculate_long_take_profit(s, position) ==
    IF s.up_threshold_type = "atr"
    THEN Milli(position.entry_price) + position.entry_atr * s.up_atr_multiplier
    ELSE position.entry_price * (1000 + s.up_threshold)

calculate_short_stop_loss(s, position) ==
    IF s.stop_loss_type = "atr"
    THEN Milli(position.entry_price) + position.entry_atr * s.stop_loss_atr_multiplier
    ELSE position.entry_price * (1000 + s.stop_loss_ratio)

\* Variant: the short take profit is put above the entry price.
calculate_short_take_profit_above(s, position) ==
    IF s.down_threshold_type = "atr"
    THEN Milli(position.entry_price) + position.entry_atr * s.down_atr_multiplier
    ELSE position.entry_price * (1000 - s.down_threshold)

calculate_short_take_profit(s, position) ==
    IF s.down_threshold_type = "atr"
    THEN Milli(position.entry_price) - position.entry_atr * s.down_atr_multiplier
    ELSE position.entry_price * (1000 - s.down_threshold)

\* The take-profit and stop-loss prices of a position of the given side.
Thresholds(s, side, position) ==
    IF side = "long"
    THEN [ take_profit |-> calculate_long_take_profit(s, position),
           stop_loss |-> calculate_long_stop_loss(s, position) ]
    ELSE [ take_profit |-> calculate_short_take_profit(s, position),
           stop_loss |-> calculate_short_stop_loss(s, position) ]

\* Variant: the stop loss is tested before the take profit.
long_trigger_stop_loss_first(s, position, current_price) ==
    IF Milli(current_price) <= calculate_long_stop_loss(s, position)
    THEN "stop_loss"
    ELSE IF Milli(current_price) >= calculate_long_take_profit(s, position)
         THEN "take_profit"
         ELSE "none"

\* The two tests check_long_triggers makes for one open position, in order.
long_trigger(s, position, current_price) ==
    IF Milli(current_price) >= calculate_long_take_profit(s, position)
    THEN "take_profit"
    ELSE IF Milli(current_price) <= calculate_long_stop_loss(s, position)
         THEN "stop_loss"
         ELSE "none"

\* The two tests check_short_triggers makes for one open position, in order.
short_trigger(s, position, current_price) ==
    IF Milli(current_price) <= calculate_short_take_profit(s, position)
    THEN "take_profit"
    ELSE IF Milli(current_price) >= calculate_short_stop_loss(s, position)
         THEN "stop_loss"
         ELSE "none"

Trigger(s, side, position, current_price) ==
    IF side = "long" THEN long_trigger(s, position, current_price)
                     ELSE short_trigger(s, position, current_price)

----------------------------------------------------------------------------
\* Risk control.  A check returns its verdict and the object after it.

\* Variant: the trade limit is tested with > where the code has >=.
check_risk_control_basic_strict_trades(s) ==
    IF s.is_paused
    THEN [ok |-> FALSE, s |-> s]
    ELSE IF s.daily_loss >= Money(max_daily_loss)
         THEN [ok |-> FALSE, s |-> [s EXCEPT !.is_paused = TRUE]]
         ELSE IF s.daily_trades > max_daily_trades
              THEN [ok |-> FALSE, s |-> [s EXCEPT !.is_paused = TRUE]]
              ELSE [ok |-> TRUE, s |-> s]

\* Variant: the loss limit refuses without setting is_paused.
check_risk_control_basic_no_latch(s) ==
    IF s.is_paused
    THEN [ok |-> FALSE, s |-> s]
    ELSE IF s.daily_loss >= Money(max_daily_loss)
         THEN [ok |-> FALSE, s |-> s]
         ELSE IF s.daily_trades >= max_daily_trades
              THEN [ok |-> FALSE, s |-> [s EXCEPT !.is_paused = TRUE]]
              ELSE [ok |-> TRUE, s |-> s]

check_risk_control_basic(s) ==
    IF s.is_paused
    THEN [ok |-> FALSE, s |-> s]
    ELSE IF s.daily_loss >= Money(max_daily_loss)
         THEN [ok |-> FALSE, s |-> [s EXCEPT !.is_paused = TRUE]]
         ELSE IF s.daily_trades >= max_daily_trades
              THEN [ok |-> FALSE, s |-> [s EXCEPT !.is_paused = TRUE]]
              ELSE [ok |-> TRUE, s |-> s]

\* A call of _check_risk_control_basic, observed: what it was given, what it
\* answered, and whether it left the object as it was.
BasicCheck(s) ==
    LET r == check_risk_control_basic(s) IN
    [ ok |-> r.ok,
      s |-> [r.s EXCEPT
               !.last_check = [ called |-> TRUE,
                                is_paused |-> s.is_paused,
                                daily_loss |-> s.daily_loss,
                                daily_trades |-> s.daily_trades,
                                ok |-> r.ok,
                                paused_after |-> r.s.is_paused,
                                unchanged |-> Program(r.s) = Program(s),
                                full |-> "none" ],
               !.risk_fresh = r.ok] ]

check_risk_control_full(s) ==
    LET basic == BasicCheck(s)
        total_positions == Len(basic.s.long_positions) + Len(basic.s.short_positions)
    IN  IF ~basic.ok
        THEN basic
        ELSE IF total_positions >= max_positions * 2
             THEN [ok |-> FALSE, s |-> [basic.s EXCEPT !.risk_fresh = FALSE]]
             ELSE basic

\* A call of _check_risk_control_full, observed with its verdict.
FullCheck(s) ==
    LET r == check_risk_control_full(s) IN
    [ ok |-> r.ok,
      s |-> [r.s EXCEPT !.last_check.full = IF r.ok THEN "allowed" ELSE "refused"] ]

update_daily_stats(s, loss) ==
    IF loss > 0 THEN [s EXCEPT !.daily_loss = @ + loss] ELSE s

\* Variant: the cumulative statistics are cleared as well.
reset_daily_stats_all(s) ==
    [s EXCEPT !.daily_loss = 0, !.daily_trades = 0, !.is_paused = FALSE,
              !.trade_count = 0, !.total_profit = 0, !.total_loss = 0,
              !.risk_fresh = FALSE, !.nonpoll_close = FALSE]

reset_daily_stats(s) ==
    [s EXCEPT !.daily_loss = 0, !.daily_trades = 0, !.is_paused = FALSE,
              !.risk_fresh = FALSE, !.nonpoll_close = FALSE]

----------------------------------------------------------------------------
\* Orders.  An order is issued where the code reaches the await of the
\* exchange call, and its response arrives when the task resumes.

\* The exchange is asked for an order: the request is observed with the risk
\* state it was sent in.
Issue(s, kind, by, side) ==
    [s EXCEPT
       !.last_order = [ kind |-> kind, by |-> by, side |-> side,
                        is_paused |-> s.is_paused,
                        checked |-> s.risk_fresh,
                        at_limit |-> s.daily_trades >= max_daily_trades ],
       !.risk_fresh = FALSE]

NoCur ==
    [ side |-> "none", order_id |-> 0, entry_price |-> 0, amount |-> 0,
      reason |-> "none" ]

\* (account_balance x position_ratio x leverage) / current_price, in quarter coins
calculate_position_amount(s, current_price) ==
    Coins(s.account_balance * position_ratio * leverage) \div Milli(current_price)

\* _open_long_position / _open_short_position up to the await of the order:
\* the local variables the task holds while it waits.
open_position_call(s, side, price) ==
    [ side |-> side, order_id |-> 0, entry_price |-> price,
      amount |-> calculate_position_amount(s, price), reason |-> "open" ]

\* Responses of the exchange to an opening market order: an exception, an
\* order whose 'average' is None (Decimal(str(None)) raises after the order
\* was accepted), or an order filled at the ticker price.
OpenResponses == {"raise", "none_average", "filled"}

\* _open_long_position / _open_short_position from the await on.
open_position_done(s, side, cur, response, by) ==
    IF response = "raise"
    THEN s
    ELSE IF response = "none_average"
         THEN [s EXCEPT !.orders_accepted = @ + 1]
         ELSE LET dict == [ order_id |-> s.orders_accepted + 1,
                            entry_price |-> cur.entry_price,
                            amount |-> cur.amount,
                            is_open |-> TRUE,
                            entry_atr |-> s.current_atr ]
                  \* at_open is no key of the dict: it notes the thresholds
                  \* the position has when it is opened
                  position == [ order_id |-> dict.order_id,
                                entry_price |-> dict.entry_price,
                                amount |-> dict.amount,
                                is_open |-> TRUE,
                                entry_atr |-> dict.entry_atr,
                                at_open |-> Thresholds(s, side, dict) ]
                  s1 == WithPositions(s, side, Append(PositionsOf(s, side), position))
              IN  [s1 EXCEPT !.orders_accepted = @ + 1,
                             !.last_open = [ by |-> by, side |-> side,
                                             order_id |-> position.order_id,
                                             entry_price |-> position.entry_price,
                                             entry_atr |-> position.entry_atr ],
                             !.flat_by_risk = @ \ {side},
                             !.risk_fresh = FALSE]

\* Variant: is_open is left true while the close order is awaited.
close_position_call_unmarked(s, side, position, by) ==
    LET s2 == Issue(s, "close", by, side)
    IN  [s2 EXCEPT !.close_orders[position.order_id] = @ + 1]

\* _close_long_position / _close_short_position up to the await of the order.
close_position_call(s, side, position, by) ==
    LET s1 == WithPositions(s, side, MarkClosed(PositionsOf(s, side), position.order_id))
        s2 == Issue(s1, "close", by, side)
    IN  [s2 EXCEPT !.close_orders[position.order_id] = @ + 1]

\* Gross profit and the fee estimate of a close, in money units.
profit_amount(side, cur, current_price) ==
    IF side = "long"
    THEN (current_price - cur.entry_price) * cur.amount * 10000
    ELSE (cur.entry_price - current_price) * cur.amount * 10000

total_fee_usdt(side, cur, current_price) ==
    IF side = "long"
    THEN cur.amount * current_price * fee_rate * 2
    ELSE cur.amount * cur.entry_price * fee_rate * 2

\* Variant: a profitable close adds its gross amount to total_profit.
close_position_stats_gross(s, side, cur, current_price) ==
    LET gross == profit_amount(side, cur, current_price)
        net == gross - total_fee_usdt(side, cur, current_price)
        s1 == [s EXCEPT !.trade_count = @ + 1, !.daily_trades = @ + 1,
                        !.risk_fresh = FALSE]
    IN  IF gross >= 0
        THEN IF side = "long"
             THEN [s1 EXCEPT !.total_profit = @ + gross, !.long_profit_count = @ + 1]
             ELSE [s1 EXCEPT !.total_profit = @ + gross, !.short_profit_count = @ + 1]
        ELSE update_daily_stats(
               IF side = "long"
               THEN [s1 EXCEPT !.total_loss = @ + Abs(net), !.long_loss_count = @ + 1]
               ELSE [s1 EXCEPT !.total_loss = @ + Abs(net), !.short_loss_count = @ + 1],
               Abs(net))

\* The statistics update of a close whose order went through.
close_position_stats(s, side, cur, current_price) ==
    LET gross == profit_amount(side, cur, current_price)
        net == gross - total_fee_usdt(side, cur, current_price)
        s1 == [s EXCEPT !.trade_count = @ + 1, !.daily_trades = @ + 1,
                        !.risk_fresh = FALSE]
    IN  IF gross >= 0
        THEN IF side = "long"
             THEN [s1 EXCEPT !.total_profit = @ + net, !.long_profit_count = @ + 1]
             ELSE [s1 EXCEPT !.total_profit = @ + net, !.short_profit_count = @ + 1]
        ELSE update_daily_stats(
               IF side = "long"
               THEN [s1 EXCEPT !.total_loss = @ + Abs(net), !.long_loss_count = @ + 1]
               ELSE [s1 EXCEPT !.total_loss = @ + Abs(net), !.short_loss_count = @ + 1],
               Abs(net))

\* The end of a close whose order went through: the position leaves the list.
close_position_remove(s, side, cur) ==
    WithPositions(s, side, Remove(PositionsOf(s, side), cur.order_id))

\* The except branch of a close: the error is logged, nothing is undone.
close_position_failed(s, side, cur) ==
    [s EXCEPT !.close_failed = @ \cup {cur.order_id}]

----------------------------------------------------------------------------
\* The loops over the positions.  Each starts from list(self.long_positions)
\* or list(self.short_positions), given here as the order ids still to visit,
\* and runs without suspending until it reaches the await of a close order.

Idle == [pc |-> "idle", price |-> 0, todo |-> <<>>, cur |-> NoCur]

Held(side, position, reason) ==
    [ side |-> side, order_id |-> position.order_id,
      entry_price |-> position.entry_price, amount |-> position.amount,
      reason |-> reason ]

Min(S) == CHOOSE x \in S : \A y \in S : x <= y

\* What the loop saw and did for the positions todo[1..n] of one side.
Evaluations(s, after, side, todo, n, current_price) ==
    LET ps == PositionsOf(s, side) IN
    { [ side |-> side,
        position |-> Position(ps, todo[i]),
        current_price |-> current_price,
        decision |-> Trigger(s, side, Position(ps, todo[i]), current_price),
        open_after |-> IsOpen(PositionsOf(after, side), todo[i]) ] :
      i \in {j \in 1..n : IsOpen(ps, todo[j])} }

\* check_long_triggers, then check_short_triggers, from the position todo[1]
\* on, up to the first close order or the end of check_positions.
\* run_loop, the end of a cycle: the try block was left normally, or
\* through `except Exception`, which logs; then asyncio.sleep(check_interval).
cycle_returned(s) ==
    [s EXCEPT !.last_sleep = [after |-> "return", delay |-> check_interval,
                              failures |-> 0]]

cycle_raised(s) ==
    LET k == IF last_sleep.after = "except" THEN last_sleep.failures + 1 ELSE 1
    IN  [s EXCEPT !.last_sleep = [after |-> "except", delay |-> check_interval,
                                  failures |-> IF k < MaxFailures THEN k
                                               ELSE MaxFailures]]

RECURSIVE check_triggers(_, _, _, _, _)
check_triggers(s, side, todo, current_price, seen) ==
    LET ps == PositionsOf(s, side)
        hits == { i \in 1..Len(todo) :
                    /\ IsOpen(ps, todo[i])
                    /\ Trigger(s, side, Position(ps, todo[i]), current_price) # "none" }
    IN  IF hits # {}
        THEN LET i == Min(hits)
                 position == Position(ps, todo[i])
                 after == close_position_call(s, side, position, "poll")
             IN  [ s |-> [after EXCEPT !.evals =
                            seen \cup Evaluations(s, after, side, todo, i, current_price)],
                   pc |-> "close",
                   todo |-> SubSeq(todo, i + 1, Len(todo)),
                   cur |-> Held(side, position,
                                Trigger(s, side, position, current_price)) ]
        ELSE LET all == seen \cup Evaluations(s, s, side, todo, Len(todo), current_price)
             IN  IF side = "long"
                 THEN check_triggers(s, "short", OrderIds(s.short_positions),
                                     current_price, all)
                 ELSE [ s |-> cycle_returned([s EXCEPT !.evals = all]),
                        pc |-> "sleep", todo |-> <<>>, cur |-> NoCur ]

\* Variant: the reopen follows the close whatever the full check answers.
reopen_or_skip_unchecked(s, side, todo, current_price) ==
    LET r == FullCheck(s) IN
    [ s |-> Issue(r.s, "open", "reopen", side),
      pc |-> "open",
      todo |-> todo,
      cur |-> open_position_call(r.s, side, current_price) ]

\* The lines of check_long_triggers / check_short_triggers that follow the
\* await of the close: the full risk check, then the reopen or the warning.
reopen_or_skip(s, side, todo, current_price) ==
    LET r == FullCheck(s) IN
    IF r.ok
    THEN [ s |-> Issue(r.s, "open", "reopen", side),
           pc |-> "open",
           todo |-> todo,
           cur |-> open_position_call(r.s, side, current_price) ]
    ELSE LET flat == \A i \in 1..Len(PositionsOf(r.s, side)) :
                        ~PositionsOf(r.s, side)[i].is_open
         IN  check_triggers(
               [r.s EXCEPT !.flat_by_risk = IF flat THEN @ \cup {side} ELSE @],
               side, todo, current_price, {})

\* close_all_positions from the position todo[1] on, up to the first close
\* order or its end; stop() then clears is_running.
RECURSIVE close_all_positions(_, _, _, _, _)
close_all_positions(s, side, todo, current_price, by) ==
    LET ps == PositionsOf(s, side)
        opens == { i \in 1..Len(todo) : IsOpen(ps, todo[i]) }
    IN  IF opens # {}
        THEN LET i == Min(opens)
                 position == Position(ps, todo[i])
             IN  [ s |-> close_position_call(s, side, position, by),
                   pc |-> "close",
                   todo |-> SubSeq(todo, i + 1, Len(todo)),
                   cur |-> Held(side, position, "stop") ]
        ELSE IF side = "long"
             THEN close_all_positions(s, "short", OrderIds(s.short_positions),
                                      current_price, by)
             ELSE [ s |-> IF by = "stop"
                          THEN [s EXCEPT !.is_running = FALSE, !.risk_fresh = FALSE]
                          ELSE s,
                    pc |-> "idle", todo |-> <<>>, cur |-> NoCur ]

\* What a task does once its close has returned.
Caller(t) == IF t = "loop" THEN "poll" ELSE IF t = "web" THEN "close_all" ELSE "stop"

after_close(t, s, side, todo, current_price) ==
    IF t = "loop"
    THEN reopen_or_skip(s, side, todo, current_price)
    ELSE close_all_positions(s, side, todo, current_price, Caller(t))

\* Variant: the exception of the close order leaves the trigger loop and
\* reaches the except branch of run_loop.
after_failed_close_raised(t, s, side, todo, current_price) ==
    IF t = "loop"
    THEN [ s |-> cycle_raised(s), pc |-> "sleep", todo |-> <<>>, cur |-> NoCur ]
    ELSE after_close(t, s, side, todo, current_price)

\* After a close whose order raised: _close_long_position has logged the
\* exception and returned, and the caller goes on as after any close.
after_failed_close(t, s, side, todo, current_price) ==
    after_close(t, s, side, todo, current_price)

\* The task t goes on as the outcome r says.
Resume(t, r, current_price) ==
    \E outcome \in {r} :
        /\ Becomes(outcome.s)
        /\ task' = [task EXCEPT ![t] = [ pc |-> outcome.pc, price |-> current_price,
                                         todo |-> outcome.todo, cur |-> outcome.cur ]]

Goto(t, pc) == task' = [task EXCEPT ![t] = [Idle EXCEPT !.pc = pc]]


----------------------------------------------------------------------------
\* Construction.

\* The threshold modes a run is configured with: up, down, stop loss.
PercentConfig == <<"percent", "percent", "percent">>
ThresholdConfigs == ThresholdTypes \X ThresholdTypes \X ThresholdTypes

\* The ATR the indicator reports.  A run whose three modes are "percent"
\* never reads it, so there it is held at one value.
AtrFeed ==
    IF "atr" \in {up_threshold_type, down_threshold_type, stop_loss_type}
    THEN AtrValues
    ELSE {2}

\* The configuration file of the default run, with the modes c.
validated_config(c) ==
    [ exchange |-> "binance", api_key |-> "key", secret |-> "secret",
      symbol |-> "BTC/USDT", investment |-> 1000,
      position_ratio |-> position_ratio, leverage |-> leverage,
      atr_period |-> atr_period, atr_timeframe |-> "1h",
      up_threshold_type |-> c[1], up_threshold |-> up_threshold,
      up_atr_multiplier |-> up_atr_multiplier,
      down_threshold_type |-> c[2], down_threshold |-> down_threshold,
      down_atr_multiplier |-> down_atr_multiplier,
      stop_loss_type |-> c[3], stop_loss_ratio |-> stop_loss_ratio,
      stop_loss_atr_multiplier |-> stop_loss_atr_multiplier,
      max_daily_loss |-> max_daily_loss, max_daily_trades |-> max_daily_trades,
      max_positions |-> max_positions ]

\* main() just before strategy.start(), with the configuration of modes c.
main_at_start(c) ==
    [ pc |-> "start", config |-> validated_config(c), validations |-> 1,
      exchange |-> TRUE, strategy |-> TRUE ]

\* The object after __init__ with the modes c, the tasks not yet started,
\* and main() as m.
ConstructedIn(c, m) ==
    /\ up_threshold_type = c[1]
    /\ down_threshold_type = c[2]
    /\ stop_loss_type = c[3]
    /\ long_positions = <<>>
    /\ short_positions = <<>>
    /\ daily_loss = 0
    /\ daily_trades = 0
    /\ is_paused = FALSE
    /\ is_running = FALSE
    /\ current_atr = 0
    /\ account_balance = 0
    /\ total_profit = 0
    /\ total_loss = 0
    /\ trade_count = 0
    /\ long_profit_count = 0
    /\ long_loss_count = 0
    /\ short_profit_count = 0
    /\ short_loss_count = 0
    /\ task = [t \in TaskIds |-> IF t = "loop" THEN [Idle EXCEPT !.pc = "new"] ELSE Idle]
    /\ orders_accepted = 0
    /\ close_orders = [id \in 1..MaxOrders |-> 0]
    /\ last_check = NoCheck
    /\ last_order = NoOrder
    /\ last_open = NoOpen
    /\ evals = {}
    /\ close_failed = {}
    /\ flat_by_risk = {}
    /\ risk_fresh = FALSE
    /\ nonpoll_close = FALSE
    /\ computed = [fn |-> "none"]
    /\ last_sleep = NoSleep
    /\ last_command = "none"
    /\ commands = 0
    /\ main = m

Constructed(c) == ConstructedIn(c, main_at_start(c))

\* The default configuration: percent thresholds.
Init == Constructed(PercentConfig)

\* A configuration with at least one ATR threshold.
AtrInit == \E c \in ThresholdConfigs \ {PercentConfig} : Constructed(c)

\* The responses the exchange can give to an opening order: it accepts no
\* more than MaxOrders of them.
OpenResponsesNow ==
    IF orders_accepted < MaxOrders THEN OpenResponses ELSE {"raise"}

----------------------------------------------------------------------------
\* main: strategy.start(), then strategy.run_loop().

\* start() up to the await of fetch_balance in initialize().
Start ==
    /\ task["loop"].pc = "new"
    /\ ~is_running
    /\ Becomes([Self EXCEPT !.is_running = TRUE, !.risk_fresh = FALSE])
    /\ Goto("loop", "init_balance")
    /\ UNCHANGED commands

\* fetch_balance returns or raises; then the await inside _update_atr.
InitBalance ==
    /\ task["loop"].pc = "init_balance"
    /\ \/ /\ Goto("loop", "failed")
          /\ Becomes(Self) /\ UNCHANGED commands
       \/ \E usdt_balance \in Balances :
             /\ Becomes([Self EXCEPT !.account_balance = usdt_balance,
                                     !.risk_fresh = FALSE])
             /\ Goto("loop", "init_atr")
             /\ UNCHANGED commands

\* _update_atr stores the ATR; then cancel_all_orders and the await of
\* fetch_ticker in open_initial_positions.
InitAtr ==
    /\ task["loop"].pc = "init_atr"
    /\ \E atr \in AtrFeed :
          Becomes([Self EXCEPT !.current_atr = atr, !.risk_fresh = FALSE])
    /\ Goto("loop", "init_ticker")
    /\ UNCHANGED commands

\* fetch_ticker returns or raises; then _open_long_position up to its order.
InitTicker ==
    /\ task["loop"].pc = "init_ticker"
    /\ \/ /\ Goto("loop", "failed")
          /\ Becomes(Self) /\ UNCHANGED commands
       \/ \E current_price \in Prices :
             /\ Becomes(Issue(Self, "open", "init", "long"))
             /\ task' = [task EXCEPT !["loop"] =
                           [ pc |-> "init_long", price |-> current_price,
                             todo |-> <<>>,
                             cur |-> open_position_call(Self, "long", current_price) ]]
             /\ UNCHANGED commands

\* The long order returns; then _open_short_position up to its order.
InitLong ==
    /\ task["loop"].pc = "init_long"
    /\ \E response \in OpenResponsesNow :
          LET me == task["loop"]
              s1 == open_position_done(Self, "long", me.cur, response, "init")
          IN  /\ Becomes(Issue(s1, "open", "init", "short"))
              /\ task' = [task EXCEPT !["loop"] =
                            [ pc |-> "init_short", price |-> me.price,
                              todo |-> <<>>,
                              cur |-> open_position_call(s1, "short", me.price) ]]
    /\ UNCHANGED commands

\* run_loop: the test of is_running, then get_status and the await of the
\* candles in _update_atr.  get_status only reads: when it raises, the loop
\* logs, sleeps and is back here with nothing changed.
\* Variant: a cycle that raised ends the loop.
loop_top_until_raised(s) ==
    IF s.is_running /\ last_sleep.after # "except" THEN "atr" ELSE "ended"

loop_top(s) == IF s.is_running THEN "atr" ELSE "ended"

\* The short order returns, start() returns and run_loop begins: the while
\* condition is tested and get_status returns or raises.
InitShort ==
    /\ task["loop"].pc = "init_short"
    /\ \E response \in OpenResponsesNow :
          LET s1 == open_position_done(Self, "short", task["loop"].cur, response, "init")
          IN  \/ /\ Becomes(s1)
                 /\ Goto("loop", loop_top(s1))
              \/ /\ loop_top(s1) = "atr"
                 /\ Becomes(cycle_raised(s1))
                 /\ Goto("loop", "sleep")
    /\ UNCHANGED commands

----------------------------------------------------------------------------
\* One cycle of run_loop.

\* Variant: the cycle fetches the price whatever the basic check answers.
after_basic_check_ignored(ok) == "ticker"

\* check_positions after _check_risk_control_basic: the await of
\* fetch_ticker, or the warning and the return.
after_basic_check(ok) == IF ok THEN "ticker" ELSE "sleep"


\* check_positions: the ATR is stored, then the basic risk check, then the
\* await of fetch_ticker.
LoopAtr ==
    /\ task["loop"].pc = "atr"
    /\ \E atr \in AtrFeed :
          LET r == BasicCheck([Self EXCEPT !.current_atr = atr, !.risk_fresh = FALSE])
          IN  /\ Becomes(IF r.ok THEN r.s ELSE cycle_returned(r.s))
              /\ Goto("loop", after_basic_check(r.ok))
    /\ UNCHANGED commands

\* fetch_ticker returns and the trigger loops run up to their first close, or
\* it raises and run_loop logs the exception.
LoopTicker ==
    /\ task["loop"].pc = "ticker"
    /\ \/ /\ Goto("loop", "sleep")
          /\ Becomes(cycle_raised(Self)) /\ UNCHANGED commands
       \/ \E current_price \in Prices :
             Resume("loop",
                    check_triggers(Self, "long", OrderIds(long_positions),
                                   current_price, {}),
                    current_price)
    /\ UNCHANGED commands

\* Variant: the trigger loop iterates over the list itself, so that a
\* position appended by the reopen is visited too.
after_reopen_live_list(s, side, todo, current_price) ==
    check_triggers(s, side,
                   IF s.last_open.by = "reopen"
                   THEN Append(todo, s.last_open.order_id) ELSE todo,
                   current_price, {})

\* After the reopen the for loop goes on over the copy of the list it took
\* when it began.
after_reopen(s, side, todo, current_price) ==
    check_triggers(s, side, todo, current_price, {})

\* The order of a reopen returns; the trigger loop goes on.
LoopOpen ==
    /\ task["loop"].pc = "open"
    /\ \E response \in OpenResponsesNow :
          LET me == task["loop"]
              s1 == open_position_done(Self, me.cur.side, me.cur, response, "reopen")
          IN  Resume("loop", after_reopen(s1, me.cur.side, me.todo, me.price),
                     me.price)
    /\ UNCHANGED commands

\* asyncio.sleep returns and the while condition is tested; get_status
\* returns, or its fetch_ticker raises and the cycle ends in the except branch.
LoopSleep ==
    /\ task["loop"].pc = "sleep"
    /\ \/ /\ Goto("loop", loop_top(Self))
          /\ Becomes(Self)
       \/ /\ loop_top(Self) = "atr"
          /\ Goto("loop", "sleep")
          /\ Becomes(cycle_raised(Self))
    /\ UNCHANGED commands

----------------------------------------------------------------------------
\* A close, in whichever task runs it.

\* The close order returns or raises.  When it returned, the statistics are
\* updated and the trade recorded; the task then either awaits the websocket
\* broadcast or, with nobody connected, goes straight on.
CloseReturns(t) ==
    /\ task[t].pc = "close"
    /\ LET me == task[t]
           side == me.cur.side
       IN  \/ LET s1 == close_position_stats(Self, side, me.cur, me.price)
                  s2 == IF t = "loop" THEN s1 ELSE [s1 EXCEPT !.nonpoll_close = TRUE]
              IN  \/ /\ Becomes(s2)
                     /\ task' = [task EXCEPT ![t].pc = "bcast"]
                  \/ Resume(t, after_close(t, close_position_remove(s2, side, me.cur),
                                           side, me.todo, me.price),
                            me.price)
           \/ Resume(t, after_failed_close(t, close_position_failed(Self, side, me.cur),
                                           side, me.todo, me.price),
                     me.price)
    /\ UNCHANGED commands

\* The broadcast returns: the position leaves the list and the caller goes on.
BroadcastReturns(t) ==
    /\ task[t].pc = "bcast"
    /\ LET me == task[t]
           side == me.cur.side
       IN  Resume(t, after_close(t, close_position_remove(Self, side, me.cur),
                                 side, me.todo, me.price),
                  me.price)
    /\ UNCHANGED commands

----------------------------------------------------------------------------
\* Commands from outside the loop: the web API, the daily reset, stop() and
\* the cancellation of the loop task.

Command == /\ commands < MaxCommands
           /\ commands' = commands + 1

Commanded(s, name) == [s EXCEPT !.last_command = name]

\* POST /api/manual/long, /api/manual/short: fetch_ticker returns and
\* _open_long_position / _open_short_position runs up to its order.  Nothing
\* is read or written before fetch_ticker returns, so the request and that
\* return are one step; a fetch_ticker that raises ends the request with
\* nothing done.
WebManual(side) ==
    /\ Command
    /\ task["web"].pc = "idle"
    /\ \E current_price \in Prices :
          /\ Becomes(Issue(Commanded(Self, "manual"), "open", "manual", side))
          /\ task' = [task EXCEPT !["web"] =
                        [ pc |-> "manual_order", price |-> current_price,
                          todo |-> <<>>,
                          cur |-> open_position_call(Self, side, current_price) ]]

\* The order of a manual open returns.
WebManualOrder ==
    /\ task["web"].pc = "manual_order"
    /\ \E response \in OpenResponsesNow :
          Becomes(open_position_done(Self, task["web"].cur.side, task["web"].cur,
                                     response, "manual"))
    /\ Goto("web", "idle")
    /\ UNCHANGED commands

\* POST /api/close/all: fetch_ticker returns and close_all_positions runs up
\* to its first close.
WebCloseAll ==
    /\ Command
    /\ task["web"].pc = "idle"
    /\ \E current_price \in Prices :
          Resume("web", close_all_positions(Commanded(Self, "close_all"), "long",
                                            OrderIds(long_positions),
                                            current_price, "close_all"),
                 current_price)

\* stop(), which returns at once when the strategy is not running:
\* fetch_ticker returns and close_all_positions runs up to its first close.
\* is_running is written by no other task while stop() waits for the ticker.
Stop ==
    /\ Command
    /\ task["stop"].pc = "idle"
    /\ is_running
    /\ \E current_price \in Prices :
          Resume("stop", close_all_positions(Commanded(Self, "stop"), "long",
                                             OrderIds(long_positions),
                                             current_price, "stop"),
                 current_price)

\* POST /api/pause.
WebPause ==
    /\ Command
    /\ Becomes([Commanded(Self, "pause") EXCEPT !.is_paused = TRUE,
                                                !.risk_fresh = FALSE])
    /\ UNCHANGED task

\* POST /api/resume.
WebResume ==
    /\ Command
    /\ Becomes([Commanded(Self, "resume") EXCEPT !.is_paused = FALSE,
                                                 !.risk_fresh = FALSE])
    /\ UNCHANGED task

\* reset_daily_stats(), called by whoever owns the daily boundary.
ResetDailyStats ==
    /\ Command
    /\ Becomes(reset_daily_stats(Commanded(Self, "reset")))
    /\ UNCHANGED task

\* The loop task is cancelled while it is suspended: CancelledError is raised
\* at its await, passes every except Exception, and ends run_loop.
LoopAwaits == {"atr", "ticker", "close", "bcast", "open", "sleep"}

LoopCancel ==
    /\ Command
    /\ task["loop"].pc \in LoopAwaits
    /\ task' = [task EXCEPT !["loop"].pc = "cancelled"]
    /\ Becomes(Commanded(Self, "cancel"))

----------------------------------------------------------------------------
LoopNext ==
    \/ Start
    \/ InitBalance
    \/ InitAtr
    \/ InitTicker
    \/ InitLong
    \/ InitShort
    \/ LoopAtr
    \/ LoopTicker
    \/ LoopOpen
    \/ LoopSleep
    \/ CloseReturns("loop")
    \/ BroadcastReturns("loop")

Next ==
    \/ LoopNext
    \/ \E t \in {"web", "stop"} : CloseReturns(t)
    \/ \E t \in {"web", "stop"} : BroadcastReturns(t)
    \/ \E side \in Sides : WebManual(side)
    \/ WebManualOrder
    \/ WebCloseAll
    \/ Stop
    \/ WebPause
    \/ WebResume
    \/ ResetDailyStats
    \/ LoopCancel

Spec == Init /\ [][Next]_vars

----------------------------------------------------------------------------
\* The four threshold methods on their own, for a position dict with the
\* given entry price and ATR snapshot and a strategy constructed with the
\* given ratios and multipliers.

EntryPrices == {1, 100, 125}
EntryAtrs == {0, 2, 7}
Multipliers == {900, 1500}
Ratios == {20, 50}

Resolve ==
    \E entry_price \in EntryPrices, entry_atr \in EntryAtrs,
       up \in Ratios, down \in Ratios, stop_loss \in Ratios,
       up_atr \in Multipliers, down_atr \in Multipliers, stop_atr \in Multipliers :
        LET s == [Self EXCEPT !.up_threshold = up,
                              !.down_threshold = down,
                              !.stop_loss_ratio = stop_loss,
                              !.up_atr_multiplier = up_atr,
                              !.down_atr_multiplier = down_atr,
                              !.stop_loss_atr_multiplier = stop_atr]
            position == [entry_price |-> entry_price, entry_atr |-> entry_atr]
        IN  /\ Becomes([Self EXCEPT !.computed =
                  [ fn |-> "thresholds",
                    entry_price |-> entry_price,
                    entry_atr |-> entry_atr,
                    up_threshold |-> up,
                    down_threshold |-> down,
                    stop_loss_ratio |-> stop_loss,
                    up_atr_multiplier |-> up_atr,
                    down_atr_multiplier |-> down_atr,
                    stop_loss_atr_multiplier |-> stop_atr,
                    long_take_profit |-> calculate_long_take_profit(s, position),
                    long_stop_loss |-> calculate_long_stop_loss(s, position),
                    short_take_profit |-> calculate_short_take_profit(s, position),
                    short_stop_loss |-> calculate_short_stop_loss(s, position) ]])
            /\ UNCHANGED <<task, commands>>

\* Any of the eight combinations of modes.
ThresholdInit == \E c \in ThresholdConfigs : Constructed(c)

ThresholdSpec == ThresholdInit /\ [][Resolve]_vars

----------------------------------------------------------------------------
\* _update_atr on its own, for the candles fetch_ohlcv returns.

\* Candles, as (high, low, close); every price is a multiple of 6, so that
\* the mean of up to three true ranges is a whole number.
Candles ==
    { [high |-> 108, low |-> 96, close |-> 102],
      [high |-> 120, low |-> 114, close |-> 120],
      [high |-> 96, low |-> 90, close |-> 90],
      [high |-> 102, low |-> 102, close |-> 102],
      [high |-> 126, low |-> 102, close |-> 108] }

\* What the exchange may return for limit = atr_period + 1.
Ohlcv == UNION { [1..n -> Candles] : n \in 0..(atr_period + 1) }

Max(S) == CHOOSE x \in S : \A y \in S : x >= y

\* TR = max(H-L, |H-PC|, |L-PC|)
true_range(candle, prev_close) ==
    Max({ candle.high - candle.low,
          Abs(candle.high - prev_close),
          Abs(candle.low - prev_close) })

\* One true range for every candle but the first.
tr_list(ohlcv) ==
    [i \in 1..(Len(ohlcv) - 1) |-> true_range(ohlcv[i + 1], ohlcv[i].close)]

RECURSIVE sum(_)
sum(list) == IF list = <<>> THEN 0 ELSE Head(list) + sum(Tail(list))

update_atr(s, ohlcv) ==
    IF tr_list(ohlcv) # <<>>
    THEN [s EXCEPT !.current_atr = sum(tr_list(ohlcv)) \div Len(tr_list(ohlcv))]
    ELSE [s EXCEPT !.current_atr = 0]

\* fetch_ohlcv returns candles.
UpdateAtrReturns ==
    /\ \E ohlcv \in Ohlcv :
          Becomes([update_atr(Self, ohlcv) EXCEPT !.computed =
              [fn |-> "update_atr", raised |-> FALSE, ohlcv |-> ohlcv]])
    /\ UNCHANGED <<task, commands>>

\* fetch_ohlcv raises, or a candle cannot be unpacked.
UpdateAtrRaises ==
    /\ Becomes([Self EXCEPT !.current_atr = 0,
                            !.computed = [fn |-> "update_atr", raised |-> TRUE,
                                          ohlcv |-> <<>>]])
    /\ UNCHANGED <<task, commands>>

UpdateAtr == UpdateAtrReturns \/ UpdateAtrRaises

UpdateAtrSpec == Init /\ [][UpdateAtr]_vars

----------------------------------------------------------------------------
\* The strategy alone: start(), run_loop() and the daily reset.
StrategyNext == LoopNext \/ ResetDailyStats

\* The strategy alone with ATR thresholds.
AtrSpec == AtrInit /\ [][StrategyNext]_vars

\* The strategy alone with the default thresholds, the event loop running
\* the loop task whenever it can run.
FairSpec == Init /\ [][StrategyNext]_vars /\ WF_vars(LoopNext)

----------------------------------------------------------------------------
\* The snapshots served to the web interface, GET /api/status and
\* GET /api/positions, next to the strategy.

\* The dicts get_positions_info builds for the open positions of one list.
\* alias is the order id of the ledger dict that the returned dict is, 0 for
\* a dict of its own; float() is exact on the prices and amounts used here.
positions_info_of(ps, type, live) ==
    LET open == SelectSeq(ps, LAMBDA p : p.is_open)
    IN  [i \in 1..Len(open) |->
            [ type |-> type,
              entry_price |-> open[i].entry_price,
              amount |-> open[i].amount,
              alias |-> IF live THEN open[i].order_id ELSE 0 ]]

\* Variant: the ledger's own dicts are returned.
get_positions_info_live(s) ==
    positions_info_of(s.long_positions, "long", TRUE)
        \o positions_info_of(s.short_positions, "short", TRUE)

get_positions_info(s) ==
    positions_info_of(s.long_positions, "long", FALSE)
        \o positions_info_of(s.short_positions, "short", FALSE)

\* The part of the dict get_status returns that describes the ledger, the
\* statistics and the risk state.
get_status(s) ==
    [ is_running |-> s.is_running,
      long_count |-> Len(SelectSeq(s.long_positions, LAMBDA p : p.is_open)),
      short_count |-> Len(SelectSeq(s.short_positions, LAMBDA p : p.is_open)),
      total_trades |-> s.trade_count,
      net_profit |-> s.total_profit - s.total_loss,
      daily_loss |-> s.daily_loss,
      daily_trades |-> s.daily_trades,
      is_paused |-> s.is_paused ]

\* What an assignment of 0 to 'amount' in every returned dict does to a
\* position list.
written_through(ps, returned) ==
    [i \in 1..Len(ps) |->
        IF \E j \in 1..Len(returned) : returned[j].alias = ps[i].order_id
        THEN [ps[i] EXCEPT !.amount = 0]
        ELSE ps[i]]

\* GET /api/status: fetch_ticker raises, or the dict is returned.
GetStatus ==
    /\ \/ Becomes([Self EXCEPT !.computed = [fn |-> "get_status", raised |-> TRUE]])
       \/ Becomes([Self EXCEPT !.computed = [fn |-> "get_status", raised |-> FALSE,
                                             returned |-> get_status(Self)]])
    /\ UNCHANGED <<task, commands>>

\* GET /api/positions.
GetPositionsInfo ==
    /\ Becomes([Self EXCEPT !.computed = [fn |-> "get_positions_info",
                                          returned |-> get_positions_info(Self)]])
    /\ UNCHANGED <<task, commands>>

\* The caller of get_positions_info changes the dicts it was given.
ModifyReturned ==
    /\ computed.fn = "get_positions_info"
    /\ computed.returned # <<>>
    /\ Becomes([Self EXCEPT
          !.long_positions = written_through(@, computed.returned),
          !.short_positions = written_through(@, computed.returned),
          !.computed = [fn |-> "modified",
                        returned |-> [j \in 1..Len(computed.returned) |->
                                        [computed.returned[j] EXCEPT !.amount = 0]]]])
    /\ UNCHANGED <<task, commands>>

SnapshotSpec ==
    Init /\ [][StrategyNext \/ GetStatus \/ GetPositionsInfo \/ ModifyReturned]_vars

----------------------------------------------------------------------------
\* main(): the configuration is loaded, validated, on failure entered again
\* and validated once more; then the exchange and the strategy are created
\* and the strategy runs.

\* ConfigManager.validate: the errors it appends.  Ratios and multipliers
\* are in thousandths.
validate(c) ==
    {e \in { IF c.exchange = "" THEN "exchange" ELSE "",
             IF c.api_key = "" THEN "api_key" ELSE "",
             IF c.secret = "" THEN "secret" ELSE "",
             IF c.symbol = "" THEN "symbol" ELSE "",
             IF c.investment <= 0 THEN "investment" ELSE "",
             IF c.position_ratio <= 0 \/ c.position_ratio > 1000
               THEN "position_ratio" ELSE "",
             IF c.leverage < 1 \/ c.leverage > 125 THEN "leverage" ELSE "",
             IF c.atr_period < 1 \/ c.atr_period > 100 THEN "atr_period" ELSE "",
             IF c.atr_timeframe \notin {"1m", "5m", "15m", "30m", "1h", "4h", "1d"}
               THEN "atr_timeframe" ELSE "",
             IF c.up_threshold_type = "percent"
               THEN IF c.up_threshold <= 0 \/ c.up_threshold > 500
                    THEN "up_threshold" ELSE ""
               ELSE IF c.up_threshold_type = "atr"
                    THEN IF c.up_atr_multiplier <= 0 \/ c.up_atr_multiplier > 5000
                         THEN "up_atr_multiplier" ELSE ""
                    ELSE "up_threshold_type",
             IF c.down_threshold_type = "percent"
               THEN IF c.down_threshold <= 0 \/ c.down_threshold > 500
                    THEN "down_threshold" ELSE ""
               ELSE IF c.down_threshold_type = "atr"
                    THEN IF c.down_atr_multiplier <= 0 \/ c.down_atr_multiplier > 5000
                         THEN "down_atr_multiplier" ELSE ""
                    ELSE "down_threshold_type",
             IF c.stop_loss_type = "percent"
               THEN IF c.stop_loss_ratio <= 0 \/ c.stop_loss_ratio > 500
                    THEN "stop_loss_ratio" ELSE ""
               ELSE IF c.stop_loss_type = "atr"
                    THEN IF c.stop_loss_atr_multiplier <= 0
                              \/ c.stop_loss_atr_multiplier > 10000
                         THEN "stop_loss_atr_multiplier" ELSE ""
                    ELSE "stop_loss_type",
             IF c.max_daily_loss < 0 THEN "max_daily_loss" ELSE "",
             IF c.max_daily_trades < 0 THEN "max_daily_trades" ELSE "",
             IF c.max_positions <= 0 \/ c.max_positions > 20
               THEN "max_positions" ELSE "" } : e # ""}

\* The configurations a file or the interactive dialogue can hold: the
\* default one, one with an ATR take profit, and ones validate() rejects.
AtrUpConfig == <<"atr", "percent", "percent">>

ConfigFiles ==
    LET d == validated_config(PercentConfig) IN
    { d,
      validated_config(AtrUpConfig),
      [d EXCEPT !.api_key = ""],
      [d EXCEPT !.symbol = ""],
      [d EXCEPT !.position_ratio = 0],
      [d EXCEPT !.leverage = 126],
      [d EXCEPT !.atr_timeframe = "2h"],
      [d EXCEPT !.up_threshold = 600],
      [d EXCEPT !.stop_loss_type = "fixed"],
      [d EXCEPT !.max_positions = 0] }

\* main() at its first line.
main_entered ==
    [ pc |-> "load", config |-> validated_config(PercentConfig),
      validations |-> 0, exchange |-> FALSE, strategy |-> FALSE ]

\* Variant: after the second validation main goes on whatever it answered.
after_second_validate_ignored(is_valid) == "confirm"

\* main after the second call of validate(): on to the confirmation, or the
\* message and the return.
after_second_validate(is_valid) == IF is_valid THEN "confirm" ELSE "returned"

\* config_manager.load() reads the file, or there is none and
\* ConfigInteractive.configure() asks for it.
MainLoad ==
    /\ main.pc = "load"
    /\ \E c \in ConfigFiles :
          main' = [main EXCEPT !.pc = "validate", !.config = c]
    /\ UNCHANGED <<object, task, commands>>

\* The first validate(); on failure the errors are shown and configure()
\* is awaited.
MainValidate ==
    /\ main.pc = "validate"
    /\ main' = [main EXCEPT !.validations = @ + 1,
                            !.pc = IF validate(main.config) = {}
                                   THEN "confirm" ELSE "configure"]
    /\ UNCHANGED <<object, task, commands>>

\* configure() returns with what the user entered; validate() is called
\* again.
MainConfigure ==
    /\ main.pc = "configure"
    /\ \E c \in ConfigFiles :
          main' = [main EXCEPT !.config = c,
                               !.validations = @ + 1,
                               !.pc = after_second_validate(validate(c) = {})]
    /\ UNCHANGED <<object, task, commands>>

\* The user confirms or not; the exchange is created and its connection
\* tested; the strategy is constructed from the strategy configuration.
MainConfirm ==
    /\ main.pc = "confirm"
    /\ \/ /\ main' = [main EXCEPT !.pc = "returned"]
          /\ UNCHANGED <<object, task, commands>>
       \/ /\ main' = [main EXCEPT !.pc = "returned", !.exchange = TRUE]
          /\ UNCHANGED <<object, task, commands>>
       \/ /\ main' = [main EXCEPT !.pc = "start", !.exchange = TRUE,
                                  !.strategy = TRUE]
          /\ up_threshold_type' = main.config.up_threshold_type
          /\ down_threshold_type' = main.config.down_threshold_type
          /\ stop_loss_type' = main.config.stop_loss_type
          /\ UNCHANGED <<ledger, risk, is_running, current_atr, account_balance,
                         stats, orders_accepted, close_orders, history,
                         task, commands>>

MainNext ==
    \/ MainLoad
    \/ MainValidate
    \/ MainConfigure
    \/ MainConfirm
    \/ main.pc = "start" /\ StrategyNext

MainInit == ConstructedIn(PercentConfig, main_entered)

MainSpec == MainInit /\ [][MainNext]_vars

----------------------------------------------------------------------------
\* TradeRecorder.get_trade_summary over the lines of the trades file.

\* The most lines the trades file holds.
MaxTrades == 2

\* load_trades(limit = 10000) of get_trade_summary
summary_limit == 10000

\* 'type' of a record: 'long' and 'short' are what the closes of the strategy
\* record, 'buy' and 'sell' what the tests record.
TradeTypes == {"buy", "sell", "long", "short"}
Profits == {-50, 0, 50}
TradeRecords == [type : TradeTypes, amount : {1}, profit : Profits]

TradeFiles == UNION { [1..n -> TradeRecords] : n \in 0..MaxTrades }

\* The last limit lines of the file, the newest first.
load_trades(lines, limit) ==
    LET n == Len(lines)
        m == IF n < limit THEN n ELSE limit
    IN  [i \in 1..m |-> lines[n + 1 - i]]

get_trade_summary(lines) ==
    LET trades == load_trades(lines, summary_limit)
        each(value(_)) == [i \in 1..Len(trades) |-> value(trades[i])]
        one_if_buy(trade) == IF trade.type = "buy" THEN 1 ELSE 0
        amount(trade) == trade.amount
        gain(trade) == IF trade.profit > 0 THEN trade.profit ELSE 0
        loss(trade) == IF trade.profit < 0 THEN Abs(trade.profit) ELSE 0
        profit(trade) == trade.profit
        total_trades_ == Len(trades)
        buy_trades == sum(each(one_if_buy))
    IN  IF trades = <<>>
        THEN [ total_trades |-> 0, buy_trades |-> 0, sell_trades |-> 0,
               total_volume |-> 0, total_profit |-> 0, total_loss |-> 0,
               net_profit |-> 0 ]
        ELSE [ total_trades |-> total_trades_,
               buy_trades |-> buy_trades,
               sell_trades |-> total_trades_ - buy_trades,
               total_volume |-> sum(each(amount)),
               total_profit |-> sum(each(gain)),
               total_loss |-> sum(each(loss)),
               net_profit |-> sum(each(profit)) ]

GetTradeSummary ==
    \E lines \in TradeFiles :
        /\ Becomes([Self EXCEPT !.computed =
              [ fn |-> "get_trade_summary",
                lines |-> lines,
                summary |-> get_trade_summary(lines) ]])
        /\ UNCHANGED <<task, commands>>

SummarySpec == Init /\ [][GetTradeSummary]_vars

----------------------------------------------------------------------------
\* GET /api/config.  config_manager.config is a dict whose values under
\* 'exchange' and 'strategy' are dicts: the outer dict holds references to
\* them.  Objects are written here as a heap from addresses to dicts.

ExchangeKeys == {"exchange", "api_key", "secret"}

\* config_manager.config of the flat record c: the outer dict and the heap.
config_dict(c) ==
    [ outer |-> [exchange |-> "at_exchange", strategy |-> "at_strategy"],
      heap |-> [ at_exchange |-> [exchange |-> c.exchange, api_key |-> c.api_key,
                                  secret |-> c.secret],
                 at_strategy |-> [k \in DOMAIN c \ ExchangeKeys |-> c[k]] ] ]

\* The flat record of the dict outer in heap.
config_record(outer, heap) ==
    [k \in DOMAIN heap[outer.exchange] \cup DOMAIN heap[outer.strategy] |->
        IF k \in ExchangeKeys THEN heap[outer.exchange][k]
        ELSE heap[outer.strategy][k]]

\* get_config: config.copy() makes a new outer dict with the same references;
\* the two assignments go through safe_config['exchange'].
get_config(c) ==
    LET config_ == config_dict(c)
        safe_config == config_.outer
        heap == [config_.heap EXCEPT ![safe_config.exchange].api_key = "***",
                                     ![safe_config.exchange].secret = "***"]
    IN  [ data |-> config_record(safe_config, heap),
          config |-> config_record(config_.outer, heap) ]

GetConfig ==
    /\ LET r == get_config(main.config)
       IN  /\ BecomesObject([Self EXCEPT !.computed =
                               [fn |-> "get_config", data |-> r.data]])
           /\ main' = [main EXCEPT !.config = r.config]
    /\ UNCHANGED <<task, commands>>

ConfigSpec == Init /\ [][StrategyNext \/ GetConfig]_vars

----------------------------------------------------------------------------
\* _calculate_grid_levels.  The tests call it on a strategy constructed with
\* base_price, grid_count and grid_ratio; the class has no definition of it,
\* so the ladder is the one the specification describes: level i of each side
\* lies base_price * grid_ratio * i away from base_price, i = 1..grid_count.
\* grid_ratio is in thousandths, a price in thousandths of the quote currency.

\* The largest grid_count configured.
MaxGridCount == 5

BasePrices == {1, 100, 125, 1000, 40000}
GridRatios == {1, 20, 50, 200}

grid_level(type, base_price, grid_ratio, i) ==
    [ grid_id |-> i,
      type |-> type,
      price |-> IF type = "buy"
                THEN Milli(base_price) - base_price * grid_ratio * i
                ELSE Milli(base_price) + base_price * grid_ratio * i ]

\* Variant: each side in the order of its steps, away from base_price.
calculate_grid_levels_by_step(base_price, grid_count, grid_ratio) ==
    [ i \in 1..(2 * grid_count) |->
        IF i <= grid_count
        THEN grid_level("buy", base_price, grid_ratio, i)
        ELSE grid_level("sell", base_price, grid_ratio, i - grid_count) ]

\* The levels, sorted by price: the buy levels from the farthest to the
\* nearest, then the sell levels from the nearest to the farthest.
calculate_grid_levels(base_price, grid_count, grid_ratio) ==
    [ i \in 1..(2 * grid_count) |->
        IF i <= grid_count
        THEN grid_level("buy", base_price, grid_ratio, grid_count + 1 - i)
        ELSE grid_level("sell", base_price, grid_ratio, i - grid_count) ]

CalculateGridLevels ==
    \E base_price \in BasePrices, grid_count \in 1..MaxGridCount,
       grid_ratio \in GridRatios :
        /\ Becomes([Self EXCEPT !.computed =
              [ fn |-> "_calculate_grid_levels",
                base_price |-> base_price,
                grid_count |-> grid_count,
                grid_ratio |-> grid_ratio,
                levels |-> calculate_grid_levels(base_price, grid_count, grid_ratio) ]])
        /\ UNCHANGED <<task, commands>>

GridSpec == Init /\ [][CalculateGridLevels]_vars

----------------------------------------------------------------------------
\* The strategy with a trade recorder that cannot write and a websocket
\* broadcast that raises.  Both failures are caught where they happen, so the
\* closes of the other specifications stand for them as well; here they are
\* steps of their own, noted in computed.

\* Variant: the exception of the broadcast reaches the except branch of the
\* close.
broadcast_raised_uncaught(s, side, cur) == close_position_failed(s, side, cur)

\* broadcast_trade_update catches the exception of manager.broadcast, and the
\* close has a try around the call: the position leaves the list.
broadcast_raised(s, side, cur) == close_position_remove(s, side, cur)

\* The close order returns and record_trade fails to write: it logs the
\* error and returns.
CloseReturnsUnrecorded(t) ==
    /\ task[t].pc = "close"
    /\ LET me == task[t]
           side == me.cur.side
           s1 == [close_position_stats(Self, side, me.cur, me.price) EXCEPT
                    !.computed = [fn |-> "record_trade", raised |-> TRUE,
                                  order_id |-> me.cur.order_id]]
       IN  \/ /\ Becomes(s1)
              /\ task' = [task EXCEPT ![t].pc = "bcast"]
           \/ Resume(t, after_close(t, close_position_remove(s1, side, me.cur),
                                    side, me.todo, me.price),
                     me.price)
    /\ UNCHANGED commands

\* manager.broadcast raises.
BroadcastRaises(t) ==
    /\ task[t].pc = "bcast"
    /\ LET me == task[t]
           side == me.cur.side
           s1 == [Self EXCEPT !.computed = [fn |-> "broadcast_trade_update",
                                            raised |-> TRUE,
                                            order_id |-> me.cur.order_id]]
       IN  Resume(t, after_close(t, broadcast_raised(s1, side, me.cur),
                                 side, me.todo, me.price),
                  me.price)
    /\ UNCHANGED commands

RecorderSpec ==
    Init /\ [][ \/ StrategyNext
                \/ CloseReturnsUnrecorded("loop")
                \/ BroadcastRaises("loop") ]_vars

----------------------------------------------------------------------------
\* Properties.

LossLimitHit == daily_loss >= Money(max_daily_loss)

\* C1: a close whose exchange call raised leaves its position in the ledger
\* as an open position (is_open true).
C1_FailedCloseKeepsPositionOpen ==
    \A id \in close_failed :
        IsOpen(long_positions, id) \/ IsOpen(short_positions, id)

\* C2: _check_risk_control_basic returns false exactly when is_paused is
\* already true, or daily_loss >= max_daily_loss, or daily_trades >=
\* max_daily_trades; in the two limit cases is_paused is true afterwards, and
\* a check that returns true changes nothing.
C2_BasicCheckContract ==
    last_check.called =>
        LET at_limit == \/ last_check.daily_loss >= Money(max_daily_loss)
                        \/ last_check.daily_trades >= max_daily_trades
        IN  /\ last_check.ok <=> ~(last_check.is_paused \/ at_limit)
            /\ at_limit => last_check.paused_after
            /\ last_check.ok => last_check.unchanged

\* C2, its case: a check that found the strategy not paused, the loss below
\* its limit and the trades exactly at theirs.
C2_TradeLimitReached ==
    /\ last_check.called
    /\ ~last_check.is_paused
    /\ last_check.daily_loss < Money(max_daily_loss)
    /\ last_check.daily_trades = max_daily_trades
    /\ last_check.paused_after

\* A basic check made with the loss at or past its limit refuses and leaves
\* is_paused set.
LossLimitRefuses ==
    (last_check.called /\ last_check.daily_loss >= Money(max_daily_loss))
        => (~last_check.ok /\ last_check.paused_after)

\* C3 as stated: with the loss at or past its limit the basic check refuses
\* and sets is_paused, and is_paused stays true until reset_daily_stats.
C3_PausedUntilReset ==
    /\ []LossLimitRefuses
    /\ [][(is_paused /\ LossLimitHit) => (is_paused' \/ last_command' = "reset")]_vars

\* C3, amended: with the loss at or past its limit every basic check refuses
\* and sets is_paused, and is_paused stays true until reset_daily_stats or
\* the web resume command clears it.
C3_PausedUntilResetOrResume ==
    /\ []LossLimitRefuses
    /\ [][(is_paused /\ LossLimitHit)
             => (is_paused' \/ last_command' \in {"reset", "resume"})]_vars

\* C3, its case: the check that found the loss past its limit and the
\* strategy not yet paused.
C3_LossLimitPauses ==
    /\ last_check.called
    /\ ~last_check.is_paused
    /\ last_check.daily_loss >= Money(max_daily_loss)
    /\ is_paused
    /\ LossLimitHit

\* C4: once daily_trades has reached max_daily_trades the poll cycle places
\* no order, and closes made by poll cycles alone never take daily_trades
\* past max_daily_trades.
C4_NoOrderAtTradeLimit ==
    /\ last_order.by \in {"poll", "reopen"} => ~last_order.at_limit
    /\ ~nonpoll_close => daily_trades <= max_daily_trades

\* C5: an open long is closed iff the price is at or above its take profit
\* (reason take profit, tested first) or at or below its stop loss (reason
\* stop loss); an open short iff the price is at or below its take profit or
\* at or above its stop loss; a position meeting neither is left as it was.
C5_TriggerDecision ==
    \A e \in evals :
        LET price == Milli(e.current_price)
            tp == IF e.side = "long"
                  THEN price >= calculate_long_take_profit(Self, e.position)
                  ELSE price <= calculate_short_take_profit(Self, e.position)
            sl == IF e.side = "long"
                  THEN price <= calculate_long_stop_loss(Self, e.position)
                  ELSE price >= calculate_short_stop_loss(Self, e.position)
            ps == IF e.side = "long" THEN long_positions ELSE short_positions
        IN  /\ e.decision = "take_profit" <=> tp
            /\ e.decision = "stop_loss" <=> (sl /\ ~tp)
            /\ e.decision = "none" <=> ~(tp \/ sl)
            /\ e.open_after <=> e.decision = "none"
            /\ e.decision = "none" =>
                  \E i \in 1..Len(ps) : ps[i] = e.position

\* C5, its case: a long whose take profit and stop loss are both met (an ATR
\* snapshot of zero puts both at the entry price) is closed as a take profit.
C5_BothThresholdsMet ==
    \E e \in evals :
        /\ e.side = "long"
        /\ Milli(e.current_price) >= calculate_long_take_profit(Self, e.position)
        /\ Milli(e.current_price) <= calculate_long_stop_loss(Self, e.position)
        /\ e.decision = "take_profit"
        /\ ~e.open_after

RiskPermits ==
    /\ ~is_paused
    /\ daily_loss < Money(max_daily_loss)
    /\ daily_trades < max_daily_trades
    /\ Len(long_positions) + Len(short_positions) < max_positions * 2

\* run_loop is running and has not ended.
Polling == is_running /\ task["loop"].pc \in LoopAwaits

\* C7: a side left flat because risk control forbade the reopen is reopened
\* by a later poll cycle once risk control permits again.
C7_FlatSideReopened ==
    \A side \in Sides :
        (side \in flat_by_risk /\ RiskPermits /\ Polling)
            ~> (side \notin flat_by_risk \/ ~RiskPermits \/ ~Polling)

\* C8: len(long_positions) + len(short_positions) never exceeds
\* 2 x max_positions, and no opening order is sent with the count at that
\* bound.
C8_ExposureBound ==
    /\ Len(long_positions) + Len(short_positions) <= 2 * max_positions
    /\ last_order.kind = "open" =>
          Len(long_positions) + Len(short_positions) < 2 * max_positions

\* C9: every order sent to the exchange directly follows a risk check that
\* allowed it, and no opening order is sent while is_paused is true.
C9_RiskCheckedBeforeOrder ==
    /\ last_order.kind # "none" => last_order.checked
    /\ last_order.kind = "open" => ~last_order.is_paused

\* C10: at most one close order is ever issued for a position.
C10_NoDoubleClose ==
    \A id \in 1..MaxOrders : close_orders[id] <= 1

\* C10, its case: close-all or stop() has just run its loops while the poll
\* cycle awaits the close order of a position still in the ledger.
C10_CloseAllDuringClose ==
    /\ last_command \in {"close_all", "stop"}
    /\ task["loop"].pc = "close"
    /\ close_orders[task["loop"].cur.order_id] = 1
    /\ \E i \in 1..Len(long_positions) :
          long_positions[i].order_id = task["loop"].cur.order_id

\* C11: the take-profit and stop-loss prices of a position in the ledger,
\* computed now, are those computed when it was opened, however current_atr
\* has changed since.
C11_ThresholdsStable ==
    /\ \A i \in 1..Len(long_positions) :
          Thresholds(Self, "long", long_positions[i]) = long_positions[i].at_open
    /\ \A i \in 1..Len(short_positions) :
          Thresholds(Self, "short", short_positions[i]) = short_positions[i].at_open

\* C11, its case: a later cycle has evaluated, and left open, a long with an
\* ATR take profit whose snapshot differs from the ATR of that cycle.
C11_AtrChangedSinceOpen ==
    /\ up_threshold_type = "atr"
    /\ \E e \in evals :
          /\ e.side = "long"
          /\ e.decision = "none"
          /\ e.position.entry_atr # current_atr
          /\ \E i \in 1..Len(long_positions) : long_positions[i] = e.position

\* C12: in ATR mode the long take profit is entry + ATR x up multiplier, the
\* short take profit entry - ATR x down multiplier, the long stop loss
\* entry - ATR x stop multiplier and the short stop loss entry + ATR x stop
\* multiplier; entry 100, ATR 2, up 0.9, stop 1.5 give 101.8 and 97.0.
C12_AtrThresholds ==
    computed.fn = "thresholds" =>
        LET entry == Milli(computed.entry_price)
            atr == computed.entry_atr
        IN  /\ up_threshold_type = "atr" =>
                  computed.long_take_profit = entry + atr * computed.up_atr_multiplier
            /\ down_threshold_type = "atr" =>
                  computed.short_take_profit = entry - atr * computed.down_atr_multiplier
            /\ stop_loss_type = "atr" =>
                  /\ computed.long_stop_loss
                        = entry - atr * computed.stop_loss_atr_multiplier
                  /\ computed.short_stop_loss
                        = entry + atr * computed.stop_loss_atr_multiplier
            /\ ( /\ up_threshold_type = "atr" /\ stop_loss_type = "atr"
                 /\ computed.entry_price = 100 /\ atr = 2
                 /\ computed.up_atr_multiplier = 900
                 /\ computed.stop_loss_atr_multiplier = 1500 )
                  => ( /\ computed.long_take_profit = 101800
                       /\ computed.long_stop_loss = 97000 )

\* C12, its case: the example, with all three thresholds in ATR mode.
C12_Example ==
    /\ up_threshold_type = "atr" /\ down_threshold_type = "atr"
    /\ stop_loss_type = "atr"
    /\ computed.fn = "thresholds"
    /\ computed.entry_price = 100 /\ computed.entry_atr = 2
    /\ computed.up_atr_multiplier = 900
    /\ computed.down_atr_multiplier = 900
    /\ computed.stop_loss_atr_multiplier = 1500
    /\ computed.long_take_profit = 101800
    /\ computed.short_take_profit = 98200
    /\ computed.long_stop_loss = 97000
    /\ computed.short_stop_loss = 103000

\* C13: in percent mode the long take profit is entry x (1 + up), the long
\* stop loss entry x (1 - stop), the short take profit entry x (1 - down)
\* and the short stop loss entry x (1 + stop), each threshold following its
\* own mode whatever the modes of the other two.
C13_PercentThresholds ==
    computed.fn = "thresholds" =>
        LET entry == computed.entry_price IN
        /\ up_threshold_type = "percent" =>
              computed.long_take_profit = entry * (1000 + computed.up_threshold)
        /\ down_threshold_type = "percent" =>
              computed.short_take_profit = entry * (1000 - computed.down_threshold)
        /\ stop_loss_type = "percent" =>
              /\ computed.long_stop_loss = entry * (1000 - computed.stop_loss_ratio)
              /\ computed.short_stop_loss = entry * (1000 + computed.stop_loss_ratio)

\* C13, its case: the stop loss in percent mode while both take profits are
\* in ATR mode, with values that tell the two formulas apart.
C13_MixedModes ==
    /\ up_threshold_type = "atr" /\ down_threshold_type = "atr"
    /\ stop_loss_type = "percent"
    /\ computed.fn = "thresholds"
    /\ computed.entry_price = 100 /\ computed.entry_atr = 2
    /\ computed.stop_loss_ratio = 50
    /\ computed.stop_loss_atr_multiplier = 1500
    /\ computed.long_stop_loss = 95000
    /\ computed.short_stop_loss = 105000
    /\ computed.long_take_profit = 100000 + 2 * computed.up_atr_multiplier

\* C14: a position whose ATR-mode threshold needs an indicator value that
\* was recorded as 0 at its opening is not closed by the evaluation of a
\* poll cycle.
C14_NoCloseWithoutIndicator ==
    \A e \in evals :
        ( /\ e.position.entry_atr = 0
          /\ \/ stop_loss_type = "atr"
             \/ e.side = "long" /\ up_threshold_type = "atr"
             \/ e.side = "short" /\ down_threshold_type = "atr" )
            => e.decision = "none"

\* C15: _update_atr leaves no ATR value (current_atr = 0) when it is given
\* fewer than atr_period + 1 candles, and the arithmetic mean of the last
\* atr_period true ranges when it is given atr_period + 1 candles.
C15_AtrNeedsFullWindow ==
    (computed.fn = "update_atr" /\ ~computed.raised) =>
        LET trs == tr_list(computed.ohlcv) IN
        IF Len(computed.ohlcv) < atr_period + 1
        THEN current_atr = 0
        ELSE current_atr * atr_period
                = sum(SubSeq(trs, Len(trs) - atr_period + 1, Len(trs)))

\* C16: a cycle that raises takes the loop to its sleep and from there to a
\* further cycle; run_loop is left only when is_running is false at the
\* while test or when the task is cancelled.
C16_LoopSurvivesExceptions ==
    [][ LET pc == task["loop"].pc
            next_pc == task'["loop"].pc
        IN  /\ last_sleep'.after = "except" => next_pc = "sleep"
            /\ (last_sleep.after = "except" /\ next_pc # "sleep") =>
                  \/ is_running /\ next_pc = "atr"
                  \/ ~is_running /\ next_pc = "ended"
                  \/ last_command' = "cancel" /\ next_pc = "cancelled"
            /\ (pc \in LoopAwaits /\ next_pc \notin LoopAwaits) =>
                  \/ ~is_running /\ next_pc = "ended"
                  \/ last_command' = "cancel" /\ next_pc = "cancelled" ]_vars

\* C16, its case: the cycle that followed a cycle that raised has raised too.
C16_CycleAfterRaise ==
    /\ is_running
    /\ task["loop"].pc = "sleep"
    /\ last_sleep.after = "except"
    /\ last_sleep.failures = 2

\* C17: the sleep after the k-th cycle in a row that raised lasts
\* min(base x 2^(k-1), cap), with the delay of run_loop as the base and the
\* cap of 300 seconds.
C17_BackoffDoubles ==
    last_sleep.after = "except" =>
        last_sleep.delay = Min({check_interval * 2^(last_sleep.failures - 1), 300})

\* C18: once MaxFailures cycles in a row have raised, with MaxFailures as
\* the configured maximum, the loop has halted: it starts no further cycle.
C18_HaltsAtMaxFailures ==
    [][ (last_sleep.after = "except" /\ last_sleep.failures >= MaxFailures)
            => /\ task'["loop"].pc \in {"sleep", "ended", "cancelled"}
               /\ last_sleep'.after = "none" ]_vars

\* C19: after a cycle that raised, the loop does not go on to the next cycle
\* at once, neither before nor after its sleep: a pass that fetches the open
\* orders of the exchange comes first.
C19_ReconciledBeforeNextCycle ==
    [][ last_sleep.after = "except"
            => /\ task'["loop"].pc # "atr"
               /\ last_sleep'.after # "except" ]_vars

\* C20: when stop() returns, which is when it sets is_running to false,
\* and no close has failed, both position lists are empty.
C20_StopLeavesNoPosition ==
    [][ (is_running /\ ~is_running' /\ close_failed' = {})
            => /\ long_positions' = <<>>
               /\ short_positions' = <<>> ]_vars

\* C21: the loop task is cancelled only between actions, never at an await
\* inside a close (its order or its broadcast) or inside an open.
C21_CancelledBetweenActions ==
    [][ task'["loop"].pc = "cancelled"
            => task["loop"].pc \notin {"close", "bcast", "open"} ]_vars

\* C22: while a cycle of the poll loop is in progress, a step of any other
\* task changes neither the position lists nor daily_loss, daily_trades and
\* is_paused.
C22_LoopOwnsLedgerAndRisk ==
    [][ ( /\ task["loop"].pc \in {"atr", "ticker", "close", "bcast", "open"}
          /\ task'["loop"] = task["loop"] )
            => UNCHANGED <<ledger, risk>> ]_vars

\* C23: get_status and get_positions_info change nothing of the strategy,
\* report the positions whose is_open flag is true and no others, and a
\* change made to what they returned changes nothing of the strategy either.
C23_SnapshotsReadOnly ==
    [][ computed'.fn \in {"get_status", "get_positions_info", "modified"} =>
          /\ UNCHANGED <<config, ledger, risk, stats, is_running, current_atr,
                         account_balance, task>>
          /\ (computed'.fn = "get_status" /\ ~computed'.raised) =>
                /\ computed'.returned.long_count
                      = Cardinality({i \in 1..Len(long_positions) :
                                        long_positions[i].is_open})
                /\ computed'.returned.short_count
                      = Cardinality({i \in 1..Len(short_positions) :
                                        short_positions[i].is_open})
          /\ computed'.fn = "get_positions_info" =>
                LET listed(ps, type) ==
                        { <<type, ps[i].entry_price, ps[i].amount>> :
                            i \in {k \in 1..Len(ps) : ps[k].is_open} }
                    returned == computed'.returned
                IN  /\ Len(returned)
                          = Cardinality({i \in 1..Len(long_positions) :
                                            long_positions[i].is_open})
                            + Cardinality({i \in 1..Len(short_positions) :
                                              short_positions[i].is_open})
                    /\ { <<returned[j].type, returned[j].entry_price,
                           returned[j].amount>> : j \in 1..Len(returned) }
                          = listed(long_positions, "long")
                              \cup listed(short_positions, "short") ]_vars

\* C23, its case: the dicts returned while one position was open and the
\* other was being closed have been changed by the caller.
C23_ReturnedModified ==
    /\ computed.fn = "modified"
    /\ Len(computed.returned) = 1
    /\ \E i \in 1..Len(long_positions) : ~long_positions[i].is_open
    /\ \E i \in 1..Len(short_positions) :
          short_positions[i].is_open /\ short_positions[i].amount > 0

\* C24: a close whose order went through adds the absolute value of its net
\* result, fees deducted, to daily_loss when that result is negative, and
\* leaves daily_loss as it was otherwise.
C24_NetLossAddsToDailyLoss ==
    [][ \A t \in TaskIds :
          ( /\ task[t].pc = "close"
            /\ task'[t] # task[t]
            /\ trade_count' = trade_count + 1 )
            => LET me == task[t]
                   net == profit_amount(me.cur.side, me.cur, me.price)
                            - total_fee_usdt(me.cur.side, me.cur, me.price)
               IN  daily_loss' = daily_loss + (IF net < 0 THEN -net ELSE 0) ]_vars

\* C25: reset_daily_stats sets daily_loss and daily_trades to 0 and is_paused
\* to false and leaves the position lists, the cumulative statistics,
\* is_running, the ATR and the balance as they were.
C25_ResetDailyStats ==
    [][ last_command' = "reset" =>
          /\ daily_loss' = 0
          /\ daily_trades' = 0
          /\ ~is_paused'
          /\ UNCHANGED <<ledger, stats, is_running, current_atr, account_balance>>
      ]_vars

\* C25, its case: the reset has just been made after a losing trade, with a
\* position in the ledger.
C25_ResetAfterLoss ==
    /\ last_command = "reset"
    /\ daily_loss = 0 /\ daily_trades = 0
    /\ total_loss > 0 /\ trade_count > 0
    /\ Len(long_positions) + Len(short_positions) > 0

\* C26: a close whose trade could not be recorded or broadcast completes as
\* any other: trade_count and daily_trades are counted, a gross loss is added
\* to daily_loss, the position leaves its list, at once or after the
\* broadcast, and the cycle goes on to the reopen, the next close or its end.
C26_RecorderFailureDoesNotBlock ==
    [][ LET me == task["loop"]
            listed(id) ==
                \/ \E i \in 1..Len(long_positions') : long_positions'[i].order_id = id
                \/ \E i \in 1..Len(short_positions') : short_positions'[i].order_id = id
            gross == profit_amount(me.cur.side, me.cur, me.price)
            fee == total_fee_usdt(me.cur.side, me.cur, me.price)
        IN  /\ computed'.fn = "record_trade" =>
                  /\ trade_count' = trade_count + 1
                  /\ daily_trades' = daily_trades + 1
                  /\ gross < 0 => daily_loss' = daily_loss + (fee - gross)
                  /\ \/ task'["loop"].pc = "bcast" /\ task'["loop"].cur = me.cur
                     \/ /\ ~listed(me.cur.order_id)
                        /\ task'["loop"].pc \in {"close", "open", "sleep"}
            /\ computed'.fn = "broadcast_trade_update" =>
                  /\ ~listed(me.cur.order_id)
                  /\ me.cur.order_id \notin close_failed'
                  /\ task'["loop"].pc \in {"close", "open", "sleep"}
                  /\ UNCHANGED <<trade_count, daily_trades, daily_loss>> ]_vars

\* C26, its case: the broadcast of a closed trade has raised and the cycle is
\* at the order of the reopen.
C26_ReopenAfterBroadcastRaised ==
    /\ computed.fn = "broadcast_trade_update"
    /\ computed.raised
    /\ task["loop"].pc = "open"
    /\ trade_count > 0
    /\ \A i \in 1..Len(long_positions) : long_positions[i].order_id # computed.order_id
    /\ \A i \in 1..Len(short_positions) : short_positions[i].order_id # computed.order_id

C28_OpenPositionsHaveAmount ==
    /\ \A i \in 1..Len(long_positions) :
          long_positions[i].is_open => long_positions[i].amount > 0
    /\ \A i \in 1..Len(short_positions) :
          short_positions[i].is_open => short_positions[i].amount > 0

\* C29: a cycle of check_positions stores the indicator and asks the basic
\* risk check first; the price is fetched only when the check allowed it, and
\* it is the price of every evaluation of the cycle; the long positions are
\* evaluated before the short ones.  When the basic check refuses, the cycle
\* ends there: no order, no evaluation, the position lists, the statistics
\* and the daily counters as they were.
C29_CycleOrder ==
    [][ LET me == task["loop"]
            after == task'["loop"]
            busy == {"close", "bcast", "open"}
        IN  /\ (me.pc = "atr" /\ after # me /\ after.pc # "cancelled") =>
                  /\ last_check'.called
                  /\ last_check'.full = "none"
                  /\ after.pc = (IF last_check'.ok THEN "ticker" ELSE "sleep")
                  /\ last_order'.kind = "none"
                  /\ evals' = {}
                  /\ UNCHANGED <<ledger, stats, daily_loss, daily_trades>>
            /\ after.pc = "ticker" => (after = me \/ me.pc = "atr")
            /\ (evals' # {} \/ last_order'.by \in {"poll", "reopen"}) =>
                  /\ me.pc \in {"ticker"} \cup busy
                  /\ after.price \in Prices
                  /\ me.pc \in busy => after.price = me.price
            /\ (me.pc \in busy /\ me.cur.side = "short") =>
                  /\ \A e \in evals' : e.side = "short"
                  /\ after.pc \in busy => after.cur.side = "short"
            /\ (after.pc \in busy /\ after.cur.side = "long") =>
                  \A e \in evals' : e.side = "long" ]_vars

\* C29, its case: with positions in the ledger the basic check has refused
\* and the cycle has returned without an order.
C29_CycleRefused ==
    /\ last_check.called
    /\ ~last_check.ok
    /\ last_check.full = "none"
    /\ task["loop"].pc = "sleep"
    /\ last_sleep.after = "return"
    /\ is_running
    /\ Len(long_positions) + Len(short_positions) > 0
    /\ last_order.kind = "none"

\* C30: when the close order of a triggered position fails, the cycle places
\* no reopen order for it: no second position is opened on that side while
\* the first is still held at the exchange.
C30_NoReopenAfterFailedClose ==
    [][ ( /\ task["loop"].pc = "close"
          /\ task["loop"].cur.order_id \in close_failed'
          /\ task["loop"].cur.order_id \notin close_failed )
        => ~( /\ last_order'.kind = "open"
              /\ last_order'.by = "reopen"
              /\ last_order'.side = task["loop"].cur.side ) ]_vars

\* C31: when the order of a close or of a reopen fails in the polling loop,
\* the cycle is not aborted: every open position still to be looked at, the
\* rest of the same side and, after a long, every short, is evaluated in the
\* same step or is still ahead of the loop, and a cycle that ends there ends
\* by returning.
C31_FailureDoesNotAbortCycle ==
    [][ LET me == task["loop"]
            after == task'["loop"]
            busy == {"close", "bcast", "open"}
            failed_close == /\ me.pc = "close"
                            /\ me.cur.order_id \in close_failed' \ close_failed
            failed_reopen == /\ me.pc = "open"
                             /\ after # me
                             /\ after.pc # "cancelled"
                             /\ last_open'.by = "none"
            ahead(ps, todo) == {todo[i] : i \in {j \in 1..Len(todo) : IsOpen(ps, todo[j])}}
            pending == IF me.cur.side = "long"
                       THEN ahead(long_positions, me.todo)
                              \cup ahead(short_positions, OrderIds(short_positions))
                       ELSE ahead(short_positions, me.todo)
            evaluated(id) == \E e \in evals' : e.position.order_id = id
            waiting(id) ==
                /\ after.pc \in busy
                /\ \/ \E i \in 1..Len(after.todo) : after.todo[i] = id
                   \/ /\ after.cur.side = "long"
                      /\ IsOpen(short_positions', id)
        IN  (failed_close \/ failed_reopen) =>
                /\ after.pc \in busy \cup {"sleep"}
                /\ after.pc = "sleep" => last_sleep'.after = "return"
                /\ \A id \in pending : evaluated(id) \/ waiting(id) ]_vars

\* C31, its case: no close has gone through yet, the close of a long has
\* failed, the reopen was refused and the short position has been evaluated
\* in the same step.
C31_ShortEvaluatedAfterFailedClose ==
    /\ trade_count = 0
    /\ last_check.full = "refused"
    /\ \E i \in 1..Len(long_positions) :
          /\ long_positions[i].order_id \in close_failed
          /\ ~long_positions[i].is_open
    /\ \E e \in evals : e.side = "short" /\ e.position.is_open

\* C32: the profit a close adds to the statistics is the gross profit less a
\* fee of fee_rate on each leg: fee_rate x amount x entry price for the
\* opening order and fee_rate x amount x current price for the closing order,
\* for a long and for a short alike.
C32_FeeOnBothLegs ==
    [][ \A t \in TaskIds :
          ( /\ task[t].pc = "close"
            /\ task'[t] # task[t]
            /\ trade_count' = trade_count + 1 )
          => LET me == task[t]
                 gross == profit_amount(me.cur.side, me.cur, me.price)
                 fee == me.cur.amount * me.cur.entry_price * fee_rate
                          + me.cur.amount * me.price * fee_rate
             IN  (total_profit' - total_loss') - (total_profit - total_loss)
                    = gross - fee ]_vars

\* C33: start() is entered only with a configuration validate() accepts, the
\* one of the first validation or the one entered after it failed; when the
\* second validation fails too, main returns and has created neither the
\* exchange nor the strategy.
C33_StartedOnlyValidated ==
    [][ /\ (is_running' /\ ~is_running) =>
              /\ validate(main.config) = {}
              /\ main.validations \in {1, 2}
              /\ main.exchange /\ main.strategy
        /\ (main'.strategy /\ ~main.strategy) => validate(main'.config) = {}
        /\ (main'.validations = 2 /\ main.validations = 1
              /\ validate(main'.config) # {}) =>
              /\ main'.pc = "returned"
              /\ ~main'.exchange /\ ~main'.strategy
        /\ main.pc = "returned" => (main' = main /\ ~is_running') ]_vars

\* C33, its case: the file failed the validation, the configuration entered
\* after it passed, and the strategy has been started with it.
C33_StartedAfterReconfiguration ==
    /\ main.pc = "start"
    /\ main.validations = 2
    /\ validate(main.config) = {}
    /\ main.config.up_threshold_type = "atr"
    /\ up_threshold_type = "atr"
    /\ is_running
    /\ Len(long_positions) > 0

C35_StatisticsConserved ==
    [][ LET counters(a, b, c, d) == a + b + c + d
            balance == total_profit - total_loss
            balance_after == total_profit' - total_loss'
            closing == {t \in TaskIds : /\ task[t].pc = "close"
                                        /\ task'[t] # task[t]
                                        /\ task'[t].pc # "cancelled"}
        IN  /\ trade_count' = counters(long_profit_count', long_loss_count',
                                       short_profit_count', short_loss_count')
            /\ daily_trades' <= trade_count'
            /\ \A t \in closing :
                  LET me == task[t]
                      net == profit_amount(me.cur.side, me.cur, me.price)
                               - total_fee_usdt(me.cur.side, me.cur, me.price)
                  IN  IF me.cur.order_id \in close_failed' \ close_failed
                      THEN UNCHANGED <<stats, daily_trades>>
                      ELSE /\ trade_count' = trade_count + 1
                           /\ daily_trades' = daily_trades + 1
                           /\ balance_after = balance + net
            /\ closing = {} =>
                  /\ UNCHANGED stats
                  /\ daily_trades' = (IF last_command' = "reset" THEN 0
                                      ELSE daily_trades) ]_vars

\* C35, its case: after a reset, a profitable and a losing close have been
\* counted and one more close of the day.
C35_ClosesAfterReset ==
    /\ trade_count = 3
    /\ daily_trades = 1
    /\ total_profit > 0
    /\ total_loss > 0
    /\ long_profit_count + short_profit_count > 0
    /\ long_loss_count + short_loss_count > 0

\* C36: whenever no close is in progress, every entry of long_positions and
\* short_positions has is_open true, so the number of entries the full risk
\* check counts is the number of open positions get_status reports.
C36_LedgerHoldsLivePositions ==
    (\A t \in TaskIds : task[t].pc \notin {"close", "bcast"}) =>
        /\ \A i \in 1..Len(long_positions) : long_positions[i].is_open
        /\ \A i \in 1..Len(short_positions) : short_positions[i].is_open
        /\ Len(long_positions) + Len(short_positions)
             = get_status(Self).long_count + get_status(Self).short_count

\* C37: whenever the exchange accepts an opening order, a position carrying
\* the id of that order is in the list of its side after the step.
C37_AcceptedOpenIsTracked ==
    [][ orders_accepted' = orders_accepted + 1 =>
          \/ \E i \in 1..Len(long_positions') :
                /\ long_positions'[i].order_id = orders_accepted'
                /\ long_positions'[i].is_open
          \/ \E i \in 1..Len(short_positions') :
                /\ short_positions'[i].order_id = orders_accepted'
                /\ short_positions'[i].is_open ]_vars

\* C38: a position opened by a reopen is not looked at in the cycle that
\* opened it: the ids the loop still has to visit on a side only shrink, the
\* short pass starts from the short positions of that moment, the reopened
\* position is neither evaluated nor put on the list, a poll close is the
\* first close order of its position, and a reopen is ordered only in the
\* step in which a close of the loop has ended.
C38_ReopenedNotEvaluatedAgain ==
    [][ LET me == task["loop"]
            after == task'["loop"]
            busy == {"close", "bcast", "open"}
            ids(todo) == {todo[i] : i \in 1..Len(todo)}
            ahead == ids(after.todo)
                       \cup (IF after.pc = "close" THEN {after.cur.order_id} ELSE {})
            seen == {e.position.order_id : e \in evals'}
            reopened == IF last_open'.by = "reopen" THEN {last_open'.order_id} ELSE {}
        IN  (me.pc \in busy /\ after # me /\ after.pc # "cancelled") =>
                /\ reopened \cap (seen \cup ahead) = {}
                /\ after.pc \in busy =>
                      IF after.cur.side = me.cur.side
                      THEN /\ ahead \subseteq ids(me.todo)
                           /\ \E k \in 0..Len(me.todo) :
                                 after.todo = SubSeq(me.todo, k + 1, Len(me.todo))
                      ELSE /\ me.cur.side = "long"
                           /\ ahead \subseteq ids(OrderIds(short_positions))
                /\ seen \subseteq ids(me.todo) \cup ids(OrderIds(short_positions))
                /\ (last_order'.kind = "close" /\ last_order'.by = "poll") =>
                      close_orders'[after.cur.order_id] = 1
                /\ last_order'.by = "reopen" => me.pc \in {"close", "bcast"} ]_vars

\* C38, its case: the reopen of a long has returned with a new position and
\* the loop has gone on to evaluate the short position, not the new long.
C38_LoopWentOnPastReopened ==
    /\ last_open.by = "reopen"
    /\ last_open.side = "long"
    /\ IsOpen(long_positions, last_open.order_id)
    /\ \E e \in evals : e.side = "short"
    /\ \A e \in evals : e.position.order_id # last_open.order_id

\* C39: when start() returns and leaves the strategy running, the ledger
\* holds exactly one open long and one open short position.
C39_HedgedAfterStart ==
    [][ ( /\ task["loop"].pc = "init_short"
          /\ task'["loop"].pc \in {"atr", "sleep", "ended"}
          /\ is_running' )
        => /\ Len(long_positions') = 1 /\ long_positions'[1].is_open
           /\ Len(short_positions') = 1 /\ short_positions'[1].is_open ]_vars

\* C40: GET /api/config answers with api_key and secret masked as '***' and
\* leaves the configuration of the ConfigManager, its real api_key and
\* secret included, as it was.
C40_GetConfigReadOnly ==
    [][ computed'.fn = "get_config" =>
          /\ computed'.data.api_key = "***"
          /\ computed'.data.secret = "***"
          /\ main'.config = main.config
          /\ main'.config.api_key = "key"
          /\ main'.config.secret = "secret" ]_vars

====
